---------------------------- MODULE Spec2Model ----------------------------
(***************************************************************************)
(* sortfs (src/main.rs): walk a directory tree in parallel with the        *)
(* `ignore` crate, collect (entry, modified) pairs into a mutex-protected  *)
(* vector, sort them by modification time (newest first) and print one     *)
(* line per entry.                                                         *)
(*                                                                         *)
(* Paths and output lines are sequences of one-character strings, so that  *)
(* starts_with, trim_end_matches, len and slicing are the textual          *)
(* operations of the source.                                               *)
(***************************************************************************)
EXTENDS Integers, Sequences, FiniteSets, TLC

(***************************************************************************)
(* Bounds of the model.                                                    *)
(***************************************************************************)
\* num_cpus::get() is at most MaxThreads
MaxThreads == 2
\* modification times are drawn from -1 .. MaxTime (seconds relative to the epoch)
MaxTime == 1

\* SystemTime::UNIX_EPOCH
UnixEpoch == 0

Times == (0 - 1) .. MaxTime
Threads == 1 .. MaxThreads

(***************************************************************************)
(* Text helpers.                                                           *)
(***************************************************************************)
Slash == "/"

\* str::starts_with
StartsWith(s, p) == Len(p) <= Len(s) /\ SubSeq(s, 1, Len(p)) = p

\* str::trim_end_matches('/')
RECURSIVE TrimEndSlashes(_)
TrimEndSlashes(s) ==
    IF Len(s) > 0 /\ s[Len(s)] = Slash
    THEN TrimEndSlashes(SubSeq(s, 1, Len(s) - 1))
    ELSE s

\* format!("{}/{}", a, b)
JoinSlash(a, b) == a \o <<Slash>> \o b

\* &s[from + 1 ..] for a 0-based byte offset `from`
SliceFrom(s, from) == SubSeq(s, from + 1, Len(s))

\* the components of a path: the text between separators
RECURSIVE SplitFrom(_, _, _)
SplitFrom(s, i, acc) ==
    IF i > Len(s) THEN <<acc>>
    ELSE IF s[i] = Slash THEN <<acc>> \o SplitFrom(s, i + 1, <<>>)
    ELSE SplitFrom(s, i + 1, Append(acc, s[i]))

Components(s) == SelectSeq(SplitFrom(s, 1, <<>>), LAMBDA c : c # <<>>)

DotGit == <<".", "g", "i", "t">>

HasGitComponent(s) == \E i \in 1 .. Len(Components(s)) : Components(s)[i] = DotGit

\* byte values of the characters used, for lexicographic comparison
CharCode(ch) ==
    CASE ch = "." -> 46
      [] ch = "/" -> 47
      [] ch = "c" -> 99
      [] ch = "g" -> 103
      [] ch = "i" -> 105
      [] ch = "o" -> 111
      [] ch = "r" -> 114
      [] ch = "t" -> 116
      [] ch = "x" -> 120
      [] ch = "y" -> 121
      [] OTHER -> 0

RECURSIVE LexLeq(_, _)
LexLeq(a, b) ==
    IF a = <<>> THEN TRUE
    ELSE IF b = <<>> THEN FALSE
    ELSE IF CharCode(Head(a)) # CharCode(Head(b)) THEN CharCode(Head(a)) < CharCode(Head(b))
    ELSE LexLeq(Tail(a), Tail(b))

(***************************************************************************)
(* The file system the program is run on.  Node 1 is the target given on   *)
(* the command line; the tree below it is                                  *)
(*     r/.git/  r/.git/o/  r/.git/o/y  r/c/  r/c/x  r/cx                   *)
(* There are no ignore files in it, so the only ignore rule in force is    *)
(* the override added by build_entries.                                    *)
(***************************************************************************)
Nodes == 1 .. 7
Root == 1

parent == <<0, 1, 2, 3, 1, 5, 1>>

name == << <<"r">>, DotGit, <<"o">>, <<"y">>, <<"c">>, <<"x">>, <<"c", "x">> >>

dirTable == <<TRUE, TRUE, TRUE, FALSE, TRUE, FALSE, FALSE>>

\* the target as typed (PREFIX), and what fs::canonicalize makes of it
TypedTarget == <<"r", "/">>
Canonical == <<"/", "r">>

VARIABLES
    \* inputs: the environment and the command line (max_depth and exitCode are
    \* options: the empty set, or the set of the one value)
    num_threads, dirs_only, full_path, color, prefix_flag, max_depth, leftover_val,
    rootKind, mtime, statFails, bad, unreadable,
    \* state of the run
    phase, pending, pc, cur, modified, lockHolder, results, quitNow,
    delivered, errors, examined,
    entries, idx, lines, writes, exitCode,
    \* a second run over the same tree
    run, firstEntries, firstLines

inputs == <<num_threads, dirs_only, full_path, color, prefix_flag, max_depth, leftover_val,
            rootKind, mtime, statFails, bad, unreadable>>
walkVars == <<pending, pc, cur, modified, lockHolder, results, quitNow,
              delivered, errors, examined>>
mainVars == <<entries, idx, lines, writes, exitCode>>
runVars == <<run, firstEntries, firstLines>>
vars == <<inputs, phase, walkVars, mainVars, runVars>>

(***************************************************************************)
(* main, lines 209-255: the values derived from the command line.          *)
(***************************************************************************)
\* if full_path { prefix_target = false; }
prefix_target == prefix_flag /\ ~full_path

\* target_dir.trim_end_matches('/')
target_dir == TrimEndSlashes(TypedTarget)

\* PathBuf::from(normalized) or PathBuf::from(target_dir)
prefix_dir == IF full_path THEN Canonical ELSE target_dir

\* format!("{}/{}", normalized or target_dir, leftover_val), or ""
leftover ==
    IF Len(leftover_val) > 0 THEN JoinSlash(prefix_dir, leftover_val) ELSE <<>>

leftover_mode == Len(leftover) > 0

leading_path == TrimEndSlashes(prefix_dir)

(***************************************************************************)
(* Entries of the walk.                                                    *)
(***************************************************************************)
IsDirNode(n) == IF n = Root THEN rootKind = "dir" ELSE dirTable[n]

Children(n) == IF IsDirNode(n) THEN {m \in Nodes : parent[m] = n} ELSE {}

RECURSIVE Depth(_)
Depth(n) == IF n = Root THEN 0 ELSE Depth(parent[n]) + 1

\* the path below the walk root, as a sequence of names
RECURSIVE RelNames(_)
RelNames(n) == IF n = Root THEN <<>> ELSE Append(RelNames(parent[n]), name[n])

\* DirEntry::path(): the root as given to WalkBuilder::new, joined with the names below it
RECURSIVE PathOf(_)
PathOf(n) == IF n = Root THEN prefix_dir ELSE JoinSlash(PathOf(parent[n]), name[n])

\* is_dir(entry)
is_dir(n) == IsDirNode(n)

\* starts_with_word(entry, word)
starts_with_word(n, word) == StartsWith(PathOf(n), word)

\* (mutant) the override is left out
NoOverride(n) == FALSE

\* the override "!**/.git/*": the path below the root has a component .git
\* right above its last one
OverrideIgnores(n) ==
    LET rel == RelNames(n)
    IN  Len(rel) >= 2 /\ rel[Len(rel) - 1] = DotGit

\* (mutant) the builder variant without is_dir is taken in dirs-only mode
FilterWithoutIsDir(n) == leftover_mode => starts_with_word(n, leftover)

\* the closure given to filter_entry in the four builder variants
FilterEntry(n) ==
    /\ dirs_only => is_dir(n)
    /\ leftover_mode => starts_with_word(n, leftover)

\* (mutant) a failed stat falls back to the current time, later than every file's
ModifiedOrNow(n) == IF n \in statFails THEN MaxTime + 1 ELSE mtime[n]

\* metadata(entry.path()).and_then(|meta| meta.modified()).unwrap_or(UNIX_EPOCH)
Modified(n) == IF n \in statFails THEN UnixEpoch ELSE mtime[n]

\* (mutant) the visitor stops the walk on an error
QuitOnError(isOk) == IF isOk THEN "Continue" ELSE "Quit"

\* the WalkState the visitor closure returns
CallbackState(isOk) == "Continue"

\* results.push((entry, modified))
ResultsPush(buf, pair) == Append(buf, pair)

\* (mutant) the buffer is used without waiting for the mutex
NoMutex(holder) == TRUE

\* results.lock(): blocks while another thread holds the mutex
CanLock(holder) == holder = 0

(***************************************************************************)
(* The sort: results.par_sort_by(|a, b| b_modified.cmp(&a_modified)), a    *)
(* stable sort.                                                            *)
(***************************************************************************)
\* (mutant) the comparator's operands are swapped: oldest first
GoesAfterAscending(a, b) == a.modified > b.modified

\* TRUE when the comparator says a goes strictly after b
GoesAfter(a, b) == b.modified > a.modified

RECURSIVE InsertSorted(_, _)
InsertSorted(sorted, e) ==
    IF sorted = <<>> THEN <<e>>
    ELSE IF GoesAfter(Head(sorted), e) THEN <<e>> \o sorted
    ELSE <<Head(sorted)>> \o InsertSorted(Tail(sorted), e)

\* (mutant) the sort is left out
Unsorted(buf) == buf

RECURSIVE par_sort_by(_)
par_sort_by(buf) ==
    IF buf = <<>> THEN <<>>
    ELSE InsertSorted(par_sort_by(SubSeq(buf, 1, Len(buf) - 1)), buf[Len(buf)])

\* (mutant) the walk target is left in the results
KeepTarget(buf) == buf

\* lines 139-144: remove the first entry when it is the walk target
RemoveTarget(buf) ==
    IF leftover_mode /\ Len(buf) > 0 /\ PathOf(buf[1].node) = prefix_dir
    THEN Tail(buf)
    ELSE buf

(***************************************************************************)
(* Rendering, main lines 257-282.                                          *)
(***************************************************************************)
path_disp(n) == IF prefix_target THEN JoinSlash(target_dir, PathOf(n)) ELSE PathOf(n)

\* whether a print function is called for the entry
Printed(n) == full_path \/ Len(path_disp(n)) > Len(leading_path)

Shown(n) ==
    IF full_path THEN path_disp(n) ELSE SliceFrom(path_disp(n), Len(leading_path) + 1)

\* print_path / print_lscolor_path: the text, then "/" for a directory unless the text is "/"
LineOf(n) ==
    [text |-> IF IsDirNode(n) /\ Shown(n) # <<Slash>>
              THEN Append(Shown(n), Slash) ELSE Shown(n),
     styled |-> color,
     node |-> n]

(***************************************************************************)
(* Initial states.                                                         *)
(***************************************************************************)
RunStart ==
    /\ phase = "start"
    /\ pending = {}
    /\ pc = [w \in Threads |-> "idle"]
    /\ cur = [w \in Threads |-> 0]
    /\ modified = [w \in Threads |-> 0]
    /\ lockHolder = 0
    /\ results = <<>>
    /\ quitNow = FALSE
    /\ delivered = {}
    /\ errors = {}
    /\ examined = {}
    /\ entries = <<>>
    /\ idx = 1
    /\ lines = <<>>
    /\ writes = 0
    /\ exitCode = {}

FirstRun ==
    /\ run = 1
    /\ firstEntries = <<>>
    /\ firstLines = <<>>

\* the modification times of the fixture when a specification does not vary them
FixedTimes == <<1, 0, 0, 0, 1, 0, 0 - 1>>

NoErrors ==
    /\ bad = {}
    /\ unreadable = {}

\* Spec: every combination of the flags, with walker errors, on a target that
\* is a directory (PREFIX is the "Target directory to walk through") or missing
Init ==
    /\ num_threads \in Threads
    /\ dirs_only \in BOOLEAN
    /\ full_path \in BOOLEAN
    /\ color \in BOOLEAN
    /\ prefix_flag \in BOOLEAN
    /\ max_depth \in {{}, {1}}
    /\ leftover_val \in {<<>>, <<"c">>, <<"c", "/", "x">>}
    /\ rootKind \in {"dir", "missing"}
    /\ mtime = FixedTimes
    /\ statFails = {}
    /\ bad \in {{}, {6}, {7}}
    /\ unreadable \in {{}, {5}}
    /\ RunStart
    /\ FirstRun

\* the modification times the ordering specifications draw from: those of the
\* entries below the target vary
FreeTimes(free) == {f \in [Nodes -> Times] : \A n \in Nodes \ free : f[n] = FixedTimes[n]}

\* SpecSort: the order of the result, over modification times and stat failures
InitSort ==
    /\ num_threads = MaxThreads
    /\ dirs_only \in BOOLEAN
    /\ full_path = FALSE
    /\ max_depth = {}
    /\ leftover_val \in {<<>>, <<"c">>}
    /\ rootKind = "dir"
    /\ mtime \in FreeTimes({2, 5, 6, 7})
    /\ statFails \in {{}, {1}, {6}, {5, 7}}
    /\ color = FALSE
    /\ prefix_flag = FALSE
    /\ NoErrors
    /\ RunStart
    /\ FirstRun

\* SpecTwice: two runs over the same tree
InitTwice ==
    /\ num_threads = MaxThreads
    /\ dirs_only = FALSE
    /\ full_path = FALSE
    /\ max_depth = {}
    /\ leftover_val \in {<<>>, <<"c">>}
    /\ rootKind = "dir"
    /\ mtime \in FreeTimes({6, 7})
    /\ statFails = {}
    /\ color = FALSE
    /\ prefix_flag = FALSE
    /\ NoErrors
    /\ RunStart
    /\ FirstRun

(***************************************************************************)
(* Actions.                                                                *)
(***************************************************************************)
\* main up to walker.run: canonicalize the target in full-path mode; the walker
\* stats the root and either queues it or hands the error to the visitor
Start ==
    /\ phase = "start"
    /\ IF full_path /\ rootKind = "missing"
       THEN /\ phase' = "exited"
            /\ exitCode' = {1}
            /\ UNCHANGED <<walkVars, entries, idx, lines, writes>>
       ELSE /\ phase' = "walk"
            /\ IF rootKind = "missing"
               THEN /\ errors' = {Root}
                    /\ quitNow' = (CallbackState(FALSE) = "Quit")
                    /\ UNCHANGED pending
               ELSE /\ pending' = {Root}
                    /\ UNCHANGED <<errors, quitNow>>
            /\ examined' = {Root}
            /\ UNCHANGED <<pc, cur, modified, lockHolder, results, delivered, mainVars>>
    /\ UNCHANGED <<inputs, runVars>>

\* a worker takes an entry; the visitor is called with Ok(entry) and stats it
VisitStat(w) ==
    /\ phase = "walk"
    /\ w <= num_threads
    /\ pc[w] = "idle"
    /\ ~quitNow
    /\ \E n \in pending :
         /\ pending' = pending \ {n}
         /\ cur' = [cur EXCEPT ![w] = n]
         /\ modified' = [modified EXCEPT ![w] = Modified(n)]
         /\ delivered' = delivered \cup {n}
    /\ pc' = [pc EXCEPT ![w] = "lock"]
    /\ UNCHANGED <<inputs, phase, lockHolder, results, quitNow, errors, examined,
                   mainVars, runVars>>

\* results.lock().unwrap()
VisitLock(w) ==
    /\ phase = "walk"
    /\ pc[w] = "lock"
    /\ CanLock(lockHolder)
    /\ lockHolder' = w
    /\ pc' = [pc EXCEPT ![w] = "push"]
    /\ UNCHANGED <<inputs, phase, pending, cur, modified, results, quitNow,
                   delivered, errors, examined, mainVars, runVars>>

\* what the walker does with the children of directory n after the visitor returned
ReadFails(n) == IsDirNode(n) /\ n \in unreadable
TooDeep(n) == \E max \in max_depth : Depth(n) >= max
Listed(n) == IF ReadFails(n) \/ TooDeep(n) THEN {} ELSE Children(n)
ErrChildren(n) == Listed(n) \cap bad
SentChildren(n) ==
    {m \in Listed(n) \ bad : ~OverrideIgnores(m) /\ FilterEntry(m)}
\* the entries for which the visitor is called with Err while n is handled
ErrVisits(n) == ErrChildren(n) \cup (IF ReadFails(n) THEN {n} ELSE {})

\* results.push, the guard is dropped, the visitor returns; then the walker
\* reads the directory and queues or reports its children
VisitPush(w) ==
    /\ phase = "walk"
    /\ pc[w] = "push"
    /\ results' = ResultsPush(results, [node |-> cur[w], modified |-> modified[w]])
    /\ lockHolder' = IF lockHolder = w THEN 0 ELSE lockHolder
    /\ pc' = [pc EXCEPT ![w] = "idle"]
    /\ cur' = [cur EXCEPT ![w] = 0]
    /\ modified' = [modified EXCEPT ![w] = 0]
    /\ IF CallbackState(TRUE) # "Continue"
       THEN /\ quitNow' = (quitNow \/ CallbackState(TRUE) = "Quit")
            /\ UNCHANGED <<pending, errors, examined>>
       ELSE /\ errors' = errors \cup ErrVisits(cur[w])
            /\ examined' = examined \cup Listed(cur[w])
            /\ IF ErrVisits(cur[w]) # {} /\ CallbackState(FALSE) = "Quit"
               THEN /\ quitNow' = TRUE
                    /\ UNCHANGED pending
               ELSE /\ pending' = pending \cup SentChildren(cur[w])
                    /\ UNCHANGED quitNow
    /\ UNCHANGED <<inputs, phase, delivered, mainVars, runVars>>

\* walker.run returns; build_entries lines 136-151
Collect ==
    /\ phase = "walk"
    /\ \A w \in Threads : pc[w] = "idle"
    /\ pending = {} \/ quitNow
    /\ entries' = par_sort_by(RemoveTarget(results))
    /\ phase' = "emit"
    /\ UNCHANGED <<inputs, walkVars, idx, lines, writes, exitCode, runVars>>

\* (mutant) the result of the print function is ignored
NeverExit(ok) == FALSE

\* if let Err(_) = res { process::exit(1); }
ExitOnError(ok) == ~ok

\* one iteration of the loop over the entries; ok is whether the writes succeed
Emit(ok) ==
    /\ phase = "emit"
    /\ idx <= Len(entries)
    /\ IF ~Printed(entries[idx].node)
       THEN /\ idx' = idx + 1
            /\ UNCHANGED <<phase, lines, writes, exitCode>>
       ELSE /\ writes' = writes + 1
            /\ lines' = IF ok THEN Append(lines, LineOf(entries[idx].node)) ELSE lines
            /\ IF ExitOnError(ok)
               THEN /\ phase' = "exited"
                    /\ exitCode' = {1}
                    /\ UNCHANGED idx
               ELSE /\ idx' = idx + 1
                    /\ UNCHANGED <<phase, exitCode>>
    /\ UNCHANGED <<inputs, walkVars, entries, runVars>>

\* Ok(()) at the end of main
MainReturn ==
    /\ phase = "emit"
    /\ idx > Len(entries)
    /\ phase' = "exited"
    /\ exitCode' = {0}
    /\ UNCHANGED <<inputs, walkVars, entries, idx, lines, writes, runVars>>

Next ==
    \/ Start
    \/ \E w \in Threads : VisitStat(w)
    \/ \E w \in Threads : VisitLock(w)
    \/ \E w \in Threads : VisitPush(w)
    \/ Collect
    \/ \E ok \in BOOLEAN : Emit(ok)
    \/ MainReturn

\* the program is run again on the unmodified tree with the same command line
Rerun ==
    /\ phase = "exited"
    /\ exitCode = {0}
    /\ run = 1
    /\ run' = 2
    /\ firstEntries' = entries
    /\ firstLines' = lines
    /\ phase' = "start"
    /\ pending' = {}
    /\ pc' = [w \in Threads |-> "idle"]
    /\ cur' = [w \in Threads |-> 0]
    /\ modified' = [w \in Threads |-> 0]
    /\ lockHolder' = 0
    /\ results' = <<>>
    /\ quitNow' = FALSE
    /\ delivered' = {}
    /\ errors' = {}
    /\ examined' = {}
    /\ entries' = <<>>
    /\ idx' = 1
    /\ lines' = <<>>
    /\ writes' = 0
    /\ exitCode' = {}
    /\ UNCHANGED inputs

NextTwice == Next \/ Rerun

Spec == Init /\ [][Next]_vars
SpecSort == InitSort /\ [][Next]_vars
SpecTwice == InitTwice /\ [][NextTwice]_vars

(***************************************************************************)
(* Properties.                                                             *)
(***************************************************************************)
NodesOf(seq) == {seq[k].node : k \in 1 .. Len(seq)}

\* walker.run has returned (the walk was started and build_entries has finished)
WalkDone == phase \in {"emit", "exited"} /\ examined # {}

\* the position at which an entry was pushed into the shared buffer
PushIndex(n) == CHOOSE k \in 1 .. Len(results) : results[k].node = n

SecondRunDone == run = 2 /\ phase = "exited" /\ exitCode = {0}

C3_NoGitComponent == \A i \in 1 .. Len(lines) : ~HasGitComponent(lines[i].text)

\* C3 (amended): nothing below a .git directory of the walked tree is in the
\* result or in the output; a .git directory itself is listed, so .git occurs
\* in an output line only as its last component.
C3_NothingBelowGit ==
    /\ \A i \in 1 .. Len(entries) :
          \A k \in 1 .. Len(RelNames(entries[i].node)) - 1 :
              RelNames(entries[i].node)[k] # DotGit
    /\ \A i \in 1 .. Len(lines) :
          \A k \in 1 .. Len(Components(lines[i].text)) - 1 :
              Components(lines[i].text)[k] # DotGit

\* C3 witness: the line of the .git directory has been written, after the
\* directory was read and its children were examined.
C3_Witness ==
    /\ \E i \in 1 .. Len(lines) : HasGitComponent(lines[i].text)
    /\ \E n \in examined : Len(RelNames(n)) >= 2 /\ RelNames(n)[1] = DotGit

\* C4: in leftover mode every entry of the result has a path that starts with
\* "<root>/<fragment>", and the walk root is not among them.
C4_LeftoverPrefix ==
    Len(leftover_val) > 0 =>
        \A i \in 1 .. Len(entries) :
            /\ StartsWith(PathOf(entries[i].node), PathOf(Root) \o <<Slash>> \o leftover_val)
            /\ entries[i].node # Root

\* C4 witness: a leftover-mode result built by two threads, from a buffer the
\* root was pushed into, with entries that passed the filter.
C4_Witness ==
    /\ phase = "emit"
    /\ Len(leftover_val) > 0
    /\ num_threads > 1
    /\ Root \in NodesOf(results)
    /\ Len(entries) >= 2
    /\ \E n \in examined : n # Root /\ ~FilterEntry(n)

C6_NoRootLine == ~full_path => \A i \in 1 .. Len(lines) : lines[i].node # Root

\* C7: an entry whose stat fails is pushed with the Unix epoch as timestamp,
\* stays in the result (the leftover-mode removal of the root apart), gets its
\* line, and is ordered after every entry of a timestamp later than the epoch.
C7_StatFailure ==
    /\ quitNow = FALSE
    /\ \A k \in 1 .. Len(results) :
          results[k].node \in statFails => results[k].modified = UnixEpoch
    /\ WalkDone =>
          \A n \in delivered \cap statFails :
              /\ n \in NodesOf(results)
              /\ n \in NodesOf(entries) \/ (leftover_mode /\ n = Root)
    /\ \A i \in 1 .. Len(entries) : \A j \in 1 .. Len(entries) :
          (entries[i].node \in statFails /\ entries[j].modified > UnixEpoch) => j < i
    /\ (phase = "exited" /\ exitCode = {0}) =>
          \A i \in 1 .. Len(entries) :
              (entries[i].node \in statFails /\ Printed(entries[i].node))
                  => \E k \in 1 .. Len(lines) : lines[k].node = entries[i].node

\* C7 witness: a run has ended with the line of an entry whose stat failed,
\* which has a later entry before it and an entry from before the epoch after it.
C7_Witness ==
    /\ phase = "exited"
    /\ exitCode = {0}
    /\ \E i, j, k \in 1 .. Len(lines) :
          /\ i < j /\ j < k
          /\ lines[j].node \in statFails
          /\ lines[i].node \notin statFails /\ mtime[lines[i].node] > UnixEpoch
          /\ lines[k].node \notin statFails /\ mtime[lines[k].node] < UnixEpoch

\* the entries the walk collects when every error only skips the entry it is about
RECURSIVE Collected(_)
Collected(n) == {n} \cup UNION {Collected(m) : m \in SentChildren(n)}

\* C8: an error the walker delivers adds nothing to the buffer and never stops
\* the walk: the visitor never asks to quit, and when the walk has ended every
\* other accepted entry has been collected.
C8_ErrorsSkipped ==
    /\ quitNow = FALSE
    /\ NodesOf(results) \cap errors \subseteq unreadable
    /\ NodesOf(results) \cap bad = {}
    /\ WalkDone =>
          /\ pending = {}
          /\ NodesOf(results) = IF rootKind = "missing" THEN {} ELSE Collected(Root)

\* C8 witness: the walk has ended, an error was delivered, and entries were collected.
C8_Witness ==
    /\ phase = "emit"
    /\ errors \cap bad # {}
    /\ Len(results) >= 3
    /\ num_threads > 1

\* the lines of the entries for which a print function is called, in order
RECURSIVE LinesOf(_)
LinesOf(seq) ==
    IF seq = <<>> THEN <<>>
    ELSE IF Printed(Head(seq).node) THEN <<LineOf(Head(seq).node)>> \o LinesOf(Tail(seq))
    ELSE LinesOf(Tail(seq))

C9_State ==
    /\ (exitCode = {1} /\ examined # {}) =>
          /\ phase = "exited"
          /\ idx <= Len(entries)
          /\ Printed(entries[idx].node)
          /\ lines = LinesOf(SubSeq(entries, 1, idx - 1))
          /\ writes = Len(lines) + 1
    /\ exitCode = {0} =>
          /\ phase = "exited"
          /\ idx = Len(entries) + 1
          /\ lines = LinesOf(entries)
          /\ writes = Len(lines)
    /\ (phase = "emit" /\ exitCode = {}) =>
          /\ lines = LinesOf(SubSeq(entries, 1, idx - 1))
          /\ writes = Len(lines)

\* C9: a failed write ends the process with code 1 at the entry it failed on,
\* and no write is attempted after it; when no write fails every entry is
\* handled in sorted order and the process ends with code 0.
C9_ExitCodes ==
    /\ []C9_State
    /\ [][exitCode # {} => (writes' = writes /\ lines' = lines /\ exitCode' = exitCode)]_vars

\* C9 witness: a write failed after an earlier one succeeded, with entries left over.
C9_Witness ==
    /\ exitCode = {1}
    /\ Len(lines) >= 1
    /\ \E i \in idx + 1 .. Len(entries) : Printed(entries[i].node)

C10_State ==
    /\ \A w \in Threads : pc[w] = "push" <=> lockHolder = w
    /\ \A i, j \in 1 .. Len(results) : results[i].node = results[j].node => i = j
    /\ NodesOf(results) \cup {cur[w] : w \in {v \in Threads : pc[v] # "idle"}} = delivered
    /\ \A w \in Threads : pc[w] # "idle" => modified[w] = Modified(cur[w])
    /\ WalkDone => (NodesOf(results) = delivered /\ Len(results) = Cardinality(delivered))

\* C10: the buffer changes only by an append made by the thread that holds the
\* lock; every delivered entry is in the buffer exactly once when the walk has
\* ended; a thread holds the lock only after it has done its stat.
C10_LockedAppends ==
    /\ []C10_State
    /\ [][results' # results =>
            \E w \in Threads :
                /\ lockHolder = w
                /\ results' = Append(results, [node |-> cur[w], modified |-> modified[w]])]_vars

\* C10 witness: one thread is pushing under the lock while another, its stat
\* done, waits for the lock.
C10_Witness ==
    /\ \E w, v \in Threads : pc[w] = "push" /\ pc[v] = "lock"
    /\ Len(results) >= 1

=============================================================================
